---- MODULE Spec2Model ----
(***************************************************************************)
(* Model of custom_components.proximity (src/proximity.py).                *)
(*                                                                         *)
(* setup(hass, config) reads the configuration, creates the proximity     *)
(* entity and registers check_proximity_dev_state_change as the listener  *)
(* for state changes of the tracked devices.  The listener recomputes the *)
(* proximity entity from the state registry (hass.states).                *)
(*                                                                         *)
(* Geometry.  homeassistant.util.location.distance is a library function: *)
(* it is modelled on a meridian, a latitude being a position in units of  *)
(* 1/32 metre (a dyadic unit, so that the floats of the code are exact)   *)
(* and every longitude that is present being the same.  The two roundings *)
(* of the code, round(x / 1000, 1) and round(x, 1), are computed.         *)
(*                                                                         *)
(* Environment.  Every tracked device has a state in the registry (the    *)
(* device tracker publishes its known devices when it starts, before this *)
(* component is set up), and a zone entity that exists carries both       *)
(* coordinates.  The zone entity itself may be missing.  Spec keeps the   *)
(* zone where it was when setup() ran; SpecZoneMoves lets it move, for    *)
(* the configurations of one or two devices.  SpecProximity is the class  *)
(* Proximity alone: nothing in the file reads the properties of the       *)
(* object that setup() constructs.                                        *)
(***************************************************************************)
EXTENDS Integers, Sequences, FiniteSets, TLC

VARIABLES
    config,       \* config[DOMAIN]: the keys present and their values
    states,       \* hass.states: entity id -> State, or NoneState
    setup_result, \* "pending", "True", "False" or "raised"
    closure,      \* the variables of setup() the listener closes over
    listening,    \* whether track_state_change registered the listener
    last,         \* the listener's last run: its arguments and its locals
    proximity,    \* the Proximity object, or NoneState before it is constructed
    read          \* the last read of a property of the object, or NoneState

vars == <<config, states, setup_result, closure, listening, last, proximity, read>>

----------------------------------------------------------------------------
(* Bounds of the model *)

\* Number of distinct positions a device can report.
NumLats == 3

\* The i-th position, in 1/32 m: 0 m, 99.97 m, 199.97 m, 299.97 m, ...
\* Consecutive positions are 99.97 m or 100 m apart and fall into
\* different 0.1 km bands.
LatAt(i) == IF i = 1 THEN 0 ELSE 3200 * (i - 1) - 1

Lats == {LatAt(i) : i \in 1..NumLats}

\* Position of the monitored zone, and a second one it can be moved to.
ZoneLats == {0, 3200}

\* The tolerance a configuration can give, in metres.
Tolerances == {0, 100}

----------------------------------------------------------------------------
(* Program constants *)

DOMAIN_ == "proximity"

\* Module-level default tolerance (metres).
tolerance == 50

\* Module-level default zone.
proximity_zone == "home"

----------------------------------------------------------------------------
(* Python values *)

\* A value that is a number in some cases and a string in others is tagged.
Num(n) == [num |-> n]
Str(s) == [str |-> s]
IsNum(v) == "num" \in DOMAIN v

\* None, where a State is expected.
NoneState == [none |-> TRUE]
IsNone(s) == "none" \in DOMAIN s

\* round(): nearest integer to n / d, an exact tie going to the even one.
Round(n, d) ==
    LET q == n \div d
        r == n % d
    IN  IF 2 * r < d THEN q
        ELSE IF 2 * r > d THEN q + 1
        ELSE IF q % 2 = 0 THEN q ELSE q + 1

\* round(x / 1000, 1) of x metres, x given in 1/32 m: tenths of a kilometre.
RoundKm(x) == Round(x, 3200)

\* round(x, 1) of x metres, x given in 1/32 m: tenths of a metre.
RoundMetres(x) == Round(10 * x, 32)

\* distance(lat1, lon1, lat2, lon2) in metres, given in 1/32 m.
distance(lat1, lon1, lat2, lon2) ==
    IF lat1 >= lat2 THEN lat1 - lat2 ELSE lat2 - lat1

\* x in seq (Python's `in` on a list of strings)
InList(x, seq) == \E i \in DOMAIN seq : seq[i] = x

----------------------------------------------------------------------------
(* The registry *)

\* Entity ids are <<domain, object id>>: 'device_tracker.a' is
\* <<"device_tracker", "a">>.
TrackedDevices ==
    << <<"device_tracker", "a">>, <<"device_tracker", "b">>, <<"device_tracker", "c">> >>

DeviceIds == {TrackedDevices[i] : i \in DOMAIN TrackedDevices}

\* The elements of a list
Elements(seq) == {seq[i] : i \in DOMAIN seq}

\* new_state.attributes['friendly_name'] of a device
friendly_name(device) == device[2]

\* 'zone.' + name and DOMAIN + '.' + name
ZoneEntityId(name) == <<"zone", name>>
ProximityEntityId(name) == <<DOMAIN_, name>>

\* The zone names a device tracker reports.
ZoneNames == {"home", "work"}

\* The attribute bags of a device: both coordinates (every longitude of the
\* model is 0), neither, or, for the first device, the longitude alone.
DeviceAttributes(device) ==
    {[friendly_name |-> friendly_name(device), latitude |-> l, longitude |-> 0] :
        l \in Lats}
    \cup {[friendly_name |-> friendly_name(device)]}
    \cup IF device = TrackedDevices[1]
         THEN {[friendly_name |-> friendly_name(device), longitude |-> 0]}
         ELSE {}

\* The states of a device. The third device is never in the monitored zone:
\* the first two cover that case.
DeviceStates(device) ==
    {[state |-> z, attributes |-> a] :
        z \in IF device = TrackedDevices[3] THEN ZoneNames \ {proximity_zone}
               ELSE ZoneNames,
        a \in DeviceAttributes(device)}

ZoneState(lat) ==
    [state |-> "zoning", attributes |-> [latitude |-> lat, longitude |-> 0]]

----------------------------------------------------------------------------
(* Configuration *)

ConfigKeys == {"override_zones", "devices", "tolerance", "zone"}

FullConfig(devs, tol) ==
    [override_zones |-> <<"work">>, devices |-> devs, tolerance |-> tol,
     zone |-> "home"]

\* config[DOMAIN] of the model: two devices with any subset of the keys
\* present and either tolerance; one device with every key present; three
\* devices with every key but override_zones (so that a device away from
\* home is in no override zone).
Configs ==
    {[k \in K |-> FullConfig(SubSeq(TrackedDevices, 1, 2), tol)[k]] :
        K \in SUBSET ConfigKeys, tol \in Tolerances}
    \cup {FullConfig(SubSeq(TrackedDevices, 1, 1), 100),
          [k \in ConfigKeys \ {"override_zones"} |->
              FullConfig(TrackedDevices, 100)[k]]}

\* The devices the device tracker knows: the configured ones, or the first
\* two when the configuration names none.
KnownDevices(cfg) ==
    IF "devices" \in DOMAIN cfg THEN Elements(cfg.devices)
    ELSE Elements(SubSeq(TrackedDevices, 1, 2))

----------------------------------------------------------------------------
(* class Proximity(Entity) *)

\* Proximity.__init__
Proximity(dist_from_home, dir_of_travel, nearest_device) ==
    [_dist_from |-> dist_from_home, _dir_of_travel |-> dir_of_travel,
     _nearest_device |-> nearest_device]

\* Proximity.state
state(self) == self._dist_from

\* Proximity.state_attributes
state_attributes(self) ==
    [dist_from_zone |-> self._dist_from, dir_of_travel |-> self._dir_of_travel,
     nearest_device |-> self._nearest_device, hidden |-> TRUE]

\* Entity.update_ha_state: the entity's state and attributes go to hass.states.
update_ha_state(self) ==
    [state |-> state(self), attributes |-> state_attributes(self)]

\* Proximity.direction_of_travel
Proximity_direction_of_travel(self) == self._dist_from

\* Proximity.distance_from_zone
Proximity_distance_from_zone(self) == self._dist_from

\* Proximity.nearest_device
Proximity_nearest_device(self) == self._dist_from

\* The properties of the class that return one field.
Accessors == {"state", "direction_of_travel", "distance_from_zone", "nearest_device"}

\* Reading a property of the object.
Get(self, accessor) ==
    IF accessor = "state" THEN state(self)
    ELSE IF accessor = "direction_of_travel" THEN Proximity_direction_of_travel(self)
    ELSE IF accessor = "distance_from_zone" THEN Proximity_distance_from_zone(self)
    ELSE Proximity_nearest_device(self)

----------------------------------------------------------------------------
(* setup(hass, config) *)

\* The configuration has no device list: setup logs an error and returns False.
DevicesMissing(cfg) == ~("devices" \in DOMAIN cfg)

\* tolerance and proximity_zone are assigned in setup(), so they are local
\* to it: the module-level defaults are never read, and reading the local
\* when the key is absent raises UnboundLocalError.
ToleranceUnbound(cfg) == ~("tolerance" \in DOMAIN cfg)
ZoneUnbound(cfg) == ~("zone" \in DOMAIN cfg)

\* hass.states.get(proximity_zone) is None: state.attributes raises
\* AttributeError.
ZoneStateMissing(cfg, st) == IsNone(st[ZoneEntityId(cfg.zone)])

SetupRaises(cfg, st) ==
    \/ ToleranceUnbound(cfg)
    \/ ZoneUnbound(cfg)
    \/ ZoneStateMissing(cfg, st)

\* The variables of setup() that the listener reads.
SetupClosure(cfg, st) ==
    [override_zones |->
        IF "override_zones" \in DOMAIN cfg THEN cfg.override_zones ELSE <<>>,
     proximity_devices |-> cfg.devices,
     tolerance |-> cfg.tolerance,
     ENTITY_ID |-> ProximityEntityId(cfg.zone),
     proximity_zone |-> ZoneEntityId(cfg.zone),
     proximity_latitude |-> st[ZoneEntityId(cfg.zone)].attributes.latitude,
     proximity_longitude |-> st[ZoneEntityId(cfg.zone)].attributes.longitude]

NoClosure == [none |-> TRUE]
NoRun == [none |-> TRUE]

\* Mutant of Setup: the proximity entity is created before the device list
\* is looked for.
SetupEntityFirst ==
    /\ setup_result = "pending"
    /\ IF DevicesMissing(config)
         THEN /\ setup_result' = "False"
              /\ states' =
                    [states EXCEPT ![ProximityEntityId("home")] =
                        update_ha_state(Proximity(Str("not set"), "not set", "not set"))]
              /\ proximity' = Proximity(Str("not set"), "not set", "not set")
              /\ UNCHANGED <<closure, listening>>
         ELSE IF SetupRaises(config, states)
         THEN /\ setup_result' = "raised"
              /\ UNCHANGED <<states, closure, listening, proximity>>
         ELSE /\ closure' = SetupClosure(config, states)
              /\ proximity' = Proximity(Str("not set"), "not set", "not set")
              /\ states' =
                    [states EXCEPT ![ProximityEntityId(config.zone)] =
                        update_ha_state(proximity')]
              /\ listening' = TRUE
              /\ setup_result' = "True"
    /\ UNCHANGED <<config, last, read>>

Setup ==
    /\ setup_result = "pending"
    /\ IF DevicesMissing(config)
         THEN /\ setup_result' = "False"
              /\ UNCHANGED <<states, closure, listening, proximity>>
         ELSE IF SetupRaises(config, states)
         THEN /\ setup_result' = "raised"
              /\ UNCHANGED <<states, closure, listening, proximity>>
         ELSE /\ closure' = SetupClosure(config, states)
              /\ proximity' = Proximity(Str("not set"), "not set", "not set")
              /\ states' =
                    [states EXCEPT ![ProximityEntityId(config.zone)] =
                        update_ha_state(proximity')]
              /\ listening' = TRUE
              /\ setup_result' = "True"
    /\ UNCHANGED <<config, last, read>>

----------------------------------------------------------------------------
(* check_proximity_dev_state_change(entity, old_state, new_state) *)

\* 'latitude' in attributes and 'longitude' in attributes
HasLocation(attributes) ==
    "latitude" \in DOMAIN attributes /\ "longitude" \in DOMAIN attributes

\* Mutant of SomeoneIsHome: the loop stops after the first device.
SomeoneIsHomeFirstOnly(cfg, cl, st) ==
    st[cl.proximity_devices[1]].state = cfg.zone

\* The first loop: some tracked device's state is config[DOMAIN]['zone'].
SomeoneIsHome(cfg, cl, st) ==
    \E i \in DOMAIN cl.proximity_devices :
        st[cl.proximity_devices[i]].state = cfg.zone

DeviceInOverrideZone(cl, new_state) == InList(new_state.state, cl.override_zones)

\* distance_from_zone, in tenths of a kilometre: 0 unless the new state has
\* both coordinates.
DistanceFromZone(cl, new_state) ==
    IF HasLocation(new_state.attributes)
    THEN RoundKm(distance(cl.proximity_latitude, cl.proximity_longitude,
                          new_state.attributes.latitude,
                          new_state.attributes.longitude))
    ELSE 0

\* `device_state not in override_zones` compares the State object, not its
\* state string, with the zone names: a State never equals a str.
StateEqualsStr(device_state, name) == FALSE

StateInList(device_state, seq) ==
    \E i \in DOMAIN seq : StateEqualsStr(device_state, seq[i])

\* Mutant of Compared: <= for < in the first test, a tie counts as closer.
ComparedTieCloser(acc, distance_from_zone, compare_distance_from_zone) ==
    [closest |-> distance_from_zone <= compare_distance_from_zone,
     compared |-> acc.compared + 1]

\* One peer compared: the flag is overwritten, the counter incremented.
Compared(acc, distance_from_zone, compare_distance_from_zone) ==
    [closest |-> distance_from_zone < compare_distance_from_zone,
     compared |-> acc.compared + 1]

\* Mutant of ComparePeer: a peer without location is counted as compared
\* and as nearer.
ComparePeerCountsUnlocated(acc, device, entity, cl, st, distance_from_zone) ==
    IF device = entity THEN acc
    ELSE IF StateInList(st[device], cl.override_zones) THEN acc
    ELSE IF HasLocation(st[device].attributes)
    THEN Compared(acc, distance_from_zone,
                  RoundKm(distance(cl.proximity_latitude, cl.proximity_longitude,
                                   st[device].attributes.latitude,
                                   st[device].attributes.longitude)))
    ELSE [closest |-> FALSE, compared |-> acc.compared + 1]

\* One iteration of the second loop.
ComparePeer(acc, device, entity, cl, st, distance_from_zone) ==
    IF device = entity THEN acc
    ELSE IF StateInList(st[device], cl.override_zones) THEN acc
    ELSE IF HasLocation(st[device].attributes)
    THEN Compared(acc, distance_from_zone,
                  RoundKm(distance(cl.proximity_latitude, cl.proximity_longitude,
                                   st[device].attributes.latitude,
                                   st[device].attributes.longitude)))
    ELSE acc

\* The second loop, over proximity_devices[i..] in order.
RECURSIVE CompareFrom(_, _, _, _, _, _)
CompareFrom(i, acc, entity, cl, st, distance_from_zone) ==
    IF i > Len(cl.proximity_devices) THEN acc
    ELSE CompareFrom(i + 1,
                     ComparePeer(acc, cl.proximity_devices[i], entity, cl, st,
                                 distance_from_zone),
                     entity, cl, st, distance_from_zone)

CompareAll(entity, cl, st, distance_from_zone) ==
    CompareFrom(1, [closest |-> FALSE, compared |-> 0], entity, cl, st,
                distance_from_zone)

\* distance_travelled, in tenths of a metre.
DistanceTravelled(cl, old_state, new_state) ==
    RoundMetres(
        distance(cl.proximity_latitude, cl.proximity_longitude,
                 new_state.attributes.latitude, new_state.attributes.longitude)
        - distance(cl.proximity_latitude, cl.proximity_longitude,
                   old_state.attributes.latitude, old_state.attributes.longitude))

\* Mutant of DirectionFor: < for <= in the first test.
DirectionForStrict(distance_travelled, tol) ==
    IF distance_travelled < 10 * tol * (-1) THEN "towards"
    ELSE IF distance_travelled > 10 * tol THEN "away_from"
    ELSE "cannot_calculate"

\* The margin of error; distance_travelled in tenths of a metre, the
\* tolerance in metres.
DirectionFor(distance_travelled, tol) ==
    IF distance_travelled <= 10 * tol * (-1) THEN "towards"
    ELSE IF distance_travelled > 10 * tol THEN "away_from"
    ELSE "cannot_calculate"

\* The branch taken when the device is closest or nothing was compared.
Travel(cl, old_state, new_state) ==
    IF ~IsNone(old_state) /\ HasLocation(new_state.attributes)
    THEN IF HasLocation(old_state.attributes)
         THEN LET dt == DistanceTravelled(cl, old_state, new_state)
              IN  [distance_travelled |-> dt,
                   direction_of_travel |-> DirectionFor(dt, cl.tolerance)]
         ELSE [distance_travelled |-> 0, direction_of_travel |-> "Unknown"]
    ELSE [distance_travelled |-> 0, direction_of_travel |-> "Unknown"]

\* The device is closest, or nothing was compared: direction is computed.
ComputesDirection(cmp) == cmp.closest \/ cmp.compared = 0

\* The listener's locals when it reaches its last statement.
Locals(cfg, cl, st, entity, old_state, new_state) ==
    LET home == SomeoneIsHome(cfg, cl, st)
        dfz == IF home THEN 0 ELSE DistanceFromZone(cl, new_state)
        cmp == IF home THEN [closest |-> FALSE, compared |-> 0]
               ELSE CompareAll(entity, cl, st, dfz)
        trv == IF ~home /\ ComputesDirection(cmp)
               THEN Travel(cl, old_state, new_state)
               ELSE [distance_travelled |-> 0, direction_of_travel |-> "not set"]
    IN  [entity |-> entity,
         entity_name |-> new_state.attributes.friendly_name,
         old_state |-> old_state,
         new_state |-> new_state,
         someone_is_home |-> home,
         device_in_override_zone |-> DeviceInOverrideZone(cl, new_state),
         device_is_closest_to_home |-> cmp.closest,
         devices_compared |-> cmp.compared,
         distance_from_zone |-> dfz,
         distance_travelled |-> trv.distance_travelled,
         direction_of_travel |-> trv.direction_of_travel]

\* Mutant of Outcome: the branch for devices_compared == 0 is missing.
OutcomeClosestOnly(l) ==
    IF l.someone_is_home THEN "arrived"
    ELSE IF l.device_is_closest_to_home THEN "updated"
    ELSE "not updated"

\* Mutant of Outcome: the last elif is an else, every run away from home
\* publishes.
OutcomeAlwaysUpdated(l) ==
    IF l.someone_is_home THEN "arrived" ELSE "updated"

\* Which branch of the final if / elif chain runs.
Outcome(l) ==
    IF l.someone_is_home THEN "arrived"
    ELSE IF ~l.someone_is_home /\ ~l.device_in_override_zone /\ l.devices_compared = 0
    THEN "updated"
    ELSE IF l.device_is_closest_to_home THEN "updated"
    ELSE "not updated"

\* The State that hass.states.set(ENTITY_ID, ...) stores.
Arrived ==
    [state |-> Num(0),
     attributes |-> [dist_from_zone |-> Num(0), dir_of_travel |-> "arrived",
                     nearest_device |-> "not_applicable", hidden |-> FALSE]]

Updated(l) ==
    [state |-> Num(l.distance_from_zone),
     attributes |-> [dist_from_zone |-> Num(l.distance_from_zone),
                     dir_of_travel |-> l.direction_of_travel,
                     nearest_device |-> l.entity_name, hidden |-> FALSE]]

\* Mutant of Publish: the direction is taken from the distance the proximity
\* entity held before, not from the event's old_state.
PublishDirectionFromPublished(cl, st, l) ==
    IF Outcome(l) = "arrived" THEN [st EXCEPT ![cl.ENTITY_ID] = Arrived]
    ELSE IF Outcome(l) = "updated"
    THEN LET before == st[cl.ENTITY_ID].state
             dir == IF ~IsNum(before) THEN l.direction_of_travel
                    ELSE IF l.distance_from_zone < before.num THEN "towards"
                    ELSE IF l.distance_from_zone > before.num THEN "away_from"
                    ELSE "cannot_calculate"
         IN  [st EXCEPT ![cl.ENTITY_ID] =
                            Updated([l EXCEPT !.direction_of_travel = dir])]
    ELSE st

\* Mutant of Publish: an update writes the distance and keeps the direction
\* and the nearest device the proximity entity held.
PublishDistanceOnly(cl, st, l) ==
    IF Outcome(l) = "arrived" THEN [st EXCEPT ![cl.ENTITY_ID] = Arrived]
    ELSE IF Outcome(l) = "updated"
    THEN [st EXCEPT ![cl.ENTITY_ID].state = Num(l.distance_from_zone),
                    ![cl.ENTITY_ID].attributes.dist_from_zone =
                        Num(l.distance_from_zone)]
    ELSE st

\* hass.states after the listener ran with locals l.
Publish(cl, st, l) ==
    IF Outcome(l) = "arrived" THEN [st EXCEPT ![cl.ENTITY_ID] = Arrived]
    ELSE IF Outcome(l) = "updated" THEN [st EXCEPT ![cl.ENTITY_ID] = Updated(l)]
    ELSE st

\* A tracked device's state changes and the listener runs on the event.
\* old_state is the state the device had, or None for a device that the
\* registry sees for the first time.
StateChange(entity, old_state, new_state) ==
    /\ listening
    /\ InList(entity, closure.proximity_devices)
    /\ new_state # states[entity]
    /\ LET st == [states EXCEPT ![entity] = new_state]
           l == Locals(config, closure, st, entity, old_state, new_state)
       IN  /\ states' = Publish(closure, st, l)
           /\ last' = l
    /\ UNCHANGED <<config, setup_result, closure, listening, proximity, read>>

\* A state change the listener is not called for: the device is not one of
\* proximity_devices, or setup did not register the listener.
UntrackedChange(entity, new_state) ==
    /\ setup_result # "pending"
    /\ ~(listening /\ InList(entity, closure.proximity_devices))
    /\ new_state # states[entity]
    /\ states' = [states EXCEPT ![entity] = new_state]
    /\ UNCHANGED <<config, setup_result, closure, listening, last, proximity, read>>

\* A property of the Proximity object is read.
Read(accessor) ==
    /\ ~IsNone(proximity)
    /\ read' = [accessor |-> accessor, value |-> Get(proximity, accessor)]
    /\ UNCHANGED <<config, states, setup_result, closure, listening, last, proximity>>

\* The zone component moves the monitored zone, before or after setup().
ZoneMoves(lat) ==
    /\ ~IsNone(states[ZoneEntityId("home")])
    /\ states[ZoneEntityId("home")] # ZoneState(lat)
    /\ states' = [states EXCEPT ![ZoneEntityId("home")] = ZoneState(lat)]
    /\ UNCHANGED <<config, setup_result, closure, listening, last, proximity, read>>

----------------------------------------------------------------------------
(* The specification *)

\* The registry when setup() is called: every known device in some state,
\* the zone entity there or not, no proximity entity.
InitialRegistries(cfg) ==
    {[e \in KnownDevices(cfg) \cup {ZoneEntityId("home"), ProximityEntityId("home")} |->
        IF e \in DeviceIds THEN d[e]
        ELSE IF e = ZoneEntityId("home") THEN z
        ELSE NoneState] :
        d \in {f \in [KnownDevices(cfg) ->
                        UNION {DeviceStates(x) : x \in KnownDevices(cfg)}] :
                  \A x \in KnownDevices(cfg) : f[x] \in DeviceStates(x)},
        z \in {NoneState, ZoneState(0)}}

Init ==
    /\ config \in Configs
    /\ states \in InitialRegistries(config)
    /\ setup_result = "pending"
    /\ closure = NoClosure
    /\ listening = FALSE
    /\ last = NoRun
    /\ proximity = NoneState
    /\ read = NoneState

\* The steps of the program with the zone where it was when setup() ran.
Next ==
    \/ Setup
    \/ \E entity \in KnownDevices(config) :
          \E new_state \in DeviceStates(entity) :
             \E old_state \in {states[entity], NoneState} :
                StateChange(entity, old_state, new_state)
    \/ \E entity \in KnownDevices(config) :
          \E new_state \in DeviceStates(entity) :
             UntrackedChange(entity, new_state)

Spec == Init /\ [][Next]_vars

\* The same with a zone that moves, for the configurations of at most two
\* devices.
InitZoneMoves == Init /\ Cardinality(KnownDevices(config)) <= 2

NextZoneMoves ==
    \/ Next
    \/ \E lat \in ZoneLats : ZoneMoves(lat)

SpecZoneMoves == InitZoneMoves /\ [][NextZoneMoves]_vars

\* The class Proximity on its own: an object constructed with any distance,
\* direction and device name, published, and its properties read.
Distances == {Str("not set")} \cup {Num(RoundKm(lat)) : lat \in Lats}

Directions ==
    {"not set", "arrived", "towards", "away_from", "cannot_calculate", "Unknown"}

Names == {"not set", "not_applicable"} \cup {friendly_name(d) : d \in DeviceIds}

InitProximity ==
    /\ proximity \in {Proximity(dist, dir, name) :
                         dist \in Distances, dir \in Directions, name \in Names}
    /\ read = NoneState
    /\ config = FullConfig(<<>>, tolerance)
    /\ states = [e \in {ProximityEntityId(config.zone)} |-> update_ha_state(proximity)]
    /\ setup_result = "pending"
    /\ closure = NoClosure
    /\ listening = FALSE
    /\ last = NoRun

NextProximity == \E accessor \in Accessors : Read(accessor)

SpecProximity == InitProximity /\ [][NextProximity]_vars

----------------------------------------------------------------------------
(* Vocabulary of the properties *)

\* The listener has run at least once; last holds that run.
HandlerRan == ~IsNone(last)

\* The proximity entity in the registry.
Published == states[closure.ENTITY_ID]

PublishedIs(dist, dir, nearest) ==
    /\ Published.state = dist
    /\ Published.attributes.dist_from_zone = dist
    /\ Published.attributes.dir_of_travel = dir
    /\ Published.attributes.nearest_device = nearest

\* The registry as the last run of the listener read it: since that run no
\* device changed (a change of a tracked device runs the listener again).
Tracked == Elements(config.devices)

SomeoneReportsZone == \E d \in Tracked : states[d].state = config.zone

ConfiguredOverrideZones ==
    IF "override_zones" \in DOMAIN config THEN config.override_zones ELSE <<>>

Peers == Tracked \ {last.entity}

\* Distance of a located device from the zone position setup() read, in
\* tenths of a kilometre.
KmFromZone(attributes) ==
    RoundKm(distance(closure.proximity_latitude, 0, attributes.latitude, 0))

\* Distance in 1/32 m, unrounded.
RawFromZone(attributes) ==
    distance(closure.proximity_latitude, 0, attributes.latitude, 0)

----------------------------------------------------------------------------
(* C1 *)

\* C1: whenever the listener has run and some tracked device (the updated
\* one or another) reports the monitored zone, the proximity entity is
\* exactly distance 0, direction 'arrived', nearest device 'not_applicable',
\* whatever the locations, override zones and previous states are.
C1_ArrivedWhenSomeoneHome ==
    (HandlerRan /\ SomeoneReportsZone)
        => PublishedIs(Num(0), "arrived", "not_applicable")

\* C1 witness: the device at home is not the updated one, and the updated
\* one is located and in an override zone.
C1_Witness ==
    /\ HandlerRan
    /\ last.new_state.state # config.zone
    /\ InList(last.new_state.state, ConfiguredOverrideZones)
    /\ HasLocation(last.new_state.attributes)
    /\ \E d \in Peers : states[d].state = config.zone
    /\ PublishedIs(Num(0), "arrived", "not_applicable")

----------------------------------------------------------------------------
(* C2 *)

\* C2: with nobody in the zone, the updated device located and at least one
\* peer compared, the updated device is considered closest only if its
\* distance is strictly less than the distance of every located peer that
\* is in no override zone (each of them is compared).
C2_ClosestOnlyIfNearerThanEveryPeer ==
    (/\ HandlerRan
     /\ ~SomeoneReportsZone
     /\ HasLocation(last.new_state.attributes)
     /\ last.devices_compared >= 1
     /\ last.device_is_closest_to_home)
        => \A p \in Peers :
              (/\ HasLocation(states[p].attributes)
               /\ ~InList(states[p].state, ConfiguredOverrideZones))
                  => KmFromZone(last.new_state.attributes)
                        < KmFromZone(states[p].attributes)

----------------------------------------------------------------------------
(* C3 *)

\* C3: with nobody in the zone, the peers the listener compared are the
\* located peers whose reported zone is no override zone: a peer in an
\* override zone does not count in devices_compared.
C3_OverridePeersNotCompared ==
    (HandlerRan /\ ~SomeoneReportsZone)
        => last.devices_compared =
              Cardinality({p \in Peers :
                  /\ HasLocation(states[p].attributes)
                  /\ ~InList(states[p].state, ConfiguredOverrideZones)})

----------------------------------------------------------------------------
(* C4 *)

\* The case of C4: direction of travel is computed from two locations.
C4_Case ==
    /\ HandlerRan
    /\ ~SomeoneReportsZone
    /\ (last.device_is_closest_to_home \/ last.devices_compared = 0)
    /\ ~IsNone(last.old_state)
    /\ HasLocation(last.old_state.attributes)
    /\ HasLocation(last.new_state.attributes)

\* newDistance - oldDistance, unrounded, in 1/32 m.
C4_RawDelta ==
    RawFromZone(last.new_state.attributes) - RawFromZone(last.old_state.attributes)

\* C4 as stated, delta being newDistance - oldDistance itself: delta <= -T
\* gives 'towards', delta > T gives 'away_from', anything else
\* 'cannot_calculate'.
C4_DirectionByRawDelta ==
    C4_Case =>
        last.direction_of_travel =
            (IF C4_RawDelta <= -(32 * config.tolerance) THEN "towards"
             ELSE IF C4_RawDelta > 32 * config.tolerance THEN "away_from"
             ELSE "cannot_calculate")

\* C4 amended: the same with delta = round(newDistance - oldDistance, 1),
\* the difference rounded to a tenth of a metre (here in tenths of a metre).
C4_DirectionByRoundedDelta ==
    C4_Case =>
        last.direction_of_travel =
            (IF RoundMetres(C4_RawDelta) <= -(10 * config.tolerance) THEN "towards"
             ELSE IF RoundMetres(C4_RawDelta) > 10 * config.tolerance THEN "away_from"
             ELSE "cannot_calculate")

\* C4 witness: a positive tolerance and a move of exactly the tolerance
\* away from the zone, which is not yet 'away_from'.
C4_Witness ==
    /\ C4_Case
    /\ config.tolerance > 0
    /\ C4_RawDelta = 32 * config.tolerance
    /\ last.direction_of_travel = "cannot_calculate"

----------------------------------------------------------------------------
(* C5 *)

\* C5: when the new state of the updated device has no location and nobody
\* is in the zone, a result published by that run has its distance unset
\* (no number) and direction 'unknown'.
C5_NoLocationLeavesDistanceUnset ==
    (/\ HandlerRan
     /\ ~SomeoneReportsZone
     /\ ~HasLocation(last.new_state.attributes)
     /\ Outcome(last) = "updated")
        => /\ ~IsNum(Published.attributes.dist_from_zone)
           /\ Published.attributes.dir_of_travel = "unknown"

----------------------------------------------------------------------------
(* C6 *)

\* The updated device's reported zone is an override zone.
UpdatedInOverrideZone == InList(last.new_state.state, ConfiguredOverrideZones)

\* The result the last run publishes when it names the updated device.
NamesUpdatedDevice ==
    /\ Published.state = Num(last.distance_from_zone)
    /\ Published.attributes.dist_from_zone = Num(last.distance_from_zone)
    /\ Published.attributes.dir_of_travel = last.direction_of_travel
    /\ Published.attributes.nearest_device = friendly_name(last.entity)

\* C6 as stated: with nobody in the zone and devices_compared = 0 (as with
\* one tracked device) a direction is computed and the result names the
\* updated device, in whatever zone that device is.
C6_DefaultClosestPublishes ==
    /\ (HandlerRan /\ ~SomeoneReportsZone /\ Len(config.devices) = 1)
          => last.devices_compared = 0
    /\ (HandlerRan /\ ~SomeoneReportsZone /\ last.devices_compared = 0)
          => /\ last.direction_of_travel # "not set"
             /\ NamesUpdatedDevice

\* C6 amended: the same, the result naming the updated device provided its
\* reported zone is no override zone.
C6_DefaultClosestPublishesOutsideOverride ==
    /\ (HandlerRan /\ ~SomeoneReportsZone /\ Len(config.devices) = 1)
          => last.devices_compared = 0
    /\ (HandlerRan /\ ~SomeoneReportsZone /\ last.devices_compared = 0)
          => /\ last.direction_of_travel # "not set"
             /\ ~UpdatedInOverrideZone => NamesUpdatedDevice

\* C6 witness: several devices, no peer located, the updated device located
\* and in no override zone, and the result names it.
C6_Witness ==
    /\ HandlerRan
    /\ ~SomeoneReportsZone
    /\ Len(config.devices) > 1
    /\ last.devices_compared = 0
    /\ ~UpdatedInOverrideZone
    /\ HasLocation(last.new_state.attributes)
    /\ NamesUpdatedDevice

----------------------------------------------------------------------------
(* C7 *)

\* A step in which the listener ran: a tracked device's state changed.
ListenerStep ==
    /\ listening
    /\ \E d \in Tracked : states'[d] # states[d]

\* C7: a run of the listener with nobody in the zone, at least one peer
\* compared and the updated device not closest leaves the proximity entity
\* as it was.
C7_NotClosestIsNoOp ==
    [][(/\ ListenerStep
        /\ \A d \in Tracked : states'[d].state # config.zone
        /\ last'.devices_compared >= 1
        /\ ~last'.device_is_closest_to_home)
          => states'[closure.ENTITY_ID] = states[closure.ENTITY_ID]]_vars

\* C7 witness: such a run happened after another device had been named.
C7_Witness ==
    /\ HandlerRan
    /\ ~SomeoneReportsZone
    /\ last.devices_compared >= 1
    /\ ~last.device_is_closest_to_home
    /\ Published.attributes.nearest_device \in {friendly_name(p) : p \in Peers}

----------------------------------------------------------------------------
(* C8 *)

\* The zone entity is in the registry (it never appears or disappears).
ZoneEntityKnown == ~IsNone(states[ZoneEntityId("home")])

\* C8: with a device list and the zone entity known, setup succeeds whether
\* or not 'tolerance' and 'zone' are configured, an absent key giving the
\* default: tolerance 50, zone 'home'.
C8_OptionalKeysDefault ==
    (setup_result # "pending" /\ "devices" \in DOMAIN config /\ ZoneEntityKnown)
        => /\ setup_result = "True"
           /\ listening
           /\ closure.tolerance =
                 (IF "tolerance" \in DOMAIN config THEN config.tolerance
                  ELSE tolerance)
           /\ closure.ENTITY_ID =
                 ProximityEntityId(IF "zone" \in DOMAIN config THEN config.zone
                                   ELSE proximity_zone)

----------------------------------------------------------------------------
(* C9 *)

\* C9: without a device list setup returns False, and then and ever after
\* there is no proximity entity, no listener and no run of the listener.
C9_NoDevicesNeverStarts ==
    (setup_result # "pending" /\ ~("devices" \in DOMAIN config))
        => /\ setup_result = "False"
           /\ IsNone(states[ProximityEntityId("home")])
           /\ ~listening
           /\ ~HandlerRan

\* C9 witness: setup returned False for want of a device list, every other
\* key and the zone being there, with every known device at home.
C9_Witness ==
    /\ setup_result = "False"
    /\ DOMAIN config = ConfigKeys \ {"devices"}
    /\ ZoneEntityKnown
    /\ \A d \in KnownDevices(config) : states[d].state = "home"

----------------------------------------------------------------------------
(* C10 *)

\* C10: with every key configured and the zone entity missing from the
\* registry, setup does not raise.
C10_MissingZoneNeverRaises ==
    (/\ setup_result # "pending"
     /\ {"devices", "tolerance", "zone"} \subseteq DOMAIN config
     /\ ~ZoneEntityKnown)
        => setup_result # "raised"

----------------------------------------------------------------------------
(* C11 *)

\* The distances of a run of the listener, taken from a zone at zone_lat:
\* that of the updated device, the comparison with the located peers (the
\* last one decides) and the distance travelled.
C11_KmFrom(zone_lat, attributes) ==
    RoundKm(distance(zone_lat, 0, attributes.latitude, 0))

C11_LocatedPeers(l) ==
    {i \in DOMAIN config.devices :
        /\ config.devices[i] # l.entity
        /\ HasLocation(states'[config.devices[i]].attributes)}

C11_LastLocatedPeer(l) ==
    config.devices[CHOOSE i \in C11_LocatedPeers(l) :
                      \A j \in C11_LocatedPeers(l) : j <= i]

C11_DistancesFrom(zone_lat, l) ==
    /\ HasLocation(l.new_state.attributes)
          => l.distance_from_zone = C11_KmFrom(zone_lat, l.new_state.attributes)
    /\ C11_LocatedPeers(l) # {}
          => l.device_is_closest_to_home =
                (l.distance_from_zone
                    < C11_KmFrom(zone_lat, states'[C11_LastLocatedPeer(l)].attributes))
    /\ l.direction_of_travel \in {"towards", "away_from", "cannot_calculate"}
          => l.distance_travelled =
                RoundMetres(
                    distance(zone_lat, 0, l.new_state.attributes.latitude, 0)
                    - distance(zone_lat, 0, l.old_state.attributes.latitude, 0))

\* A run of the listener with nobody in the zone.
C11_AwayStep ==
    /\ ListenerStep
    /\ \A d \in Tracked : states'[d].state # config.zone

\* C11 as stated: every run of the listener takes its distances from the
\* coordinates the zone entity has in the registry when the run happens.
C11_DistancesFromCurrentZone ==
    [][C11_AwayStep
          => C11_DistancesFrom(states[ZoneEntityId("home")].attributes.latitude, last')]_vars

\* What the program does instead: setup() reads the zone's coordinates once,
\* they are kept, and every run of the listener takes its distances from
\* them, wherever the zone is by then.
C11_DistancesFromZoneAtSetup ==
    [][/\ (setup_result = "pending" /\ setup_result' = "True")
            => closure'.proximity_latitude =
                  states[ZoneEntityId("home")].attributes.latitude
       /\ listening => closure' = closure
       /\ C11_AwayStep => C11_DistancesFrom(closure.proximity_latitude, last')]_vars

\* The case of C11: the zone is no longer where setup() read it, and the result
\* names a located device at the distance from the position setup() read,
\* which is not its distance from the zone's position in the registry.
C11_ZoneMovedCase ==
    /\ HandlerRan
    /\ ~SomeoneReportsZone
    /\ HasLocation(last.new_state.attributes)
    /\ NamesUpdatedDevice
    /\ states[ZoneEntityId("home")].attributes.latitude # closure.proximity_latitude
    /\ last.distance_from_zone
          = C11_KmFrom(closure.proximity_latitude, last.new_state.attributes)
    /\ last.distance_from_zone
          # C11_KmFrom(states[ZoneEntityId("home")].attributes.latitude,
                       last.new_state.attributes)

----------------------------------------------------------------------------
(* C12 *)

\* The locals of a second run of the listener on the event of the last run,
\* the registry being as the last run left it.
C12_SecondRun ==
    Locals(config, closure, states, last.entity, last.old_state, last.new_state)

\* C12: handling the event of the last run once more, against the registry
\* as that run left it, computes the same locals, takes the same branch and
\* leaves the registry, the published result included, as it is.
C12_SecondRunChangesNothing ==
    HandlerRan
       => /\ C12_SecondRun = last
          /\ Outcome(C12_SecondRun) = Outcome(last)
          /\ Publish(closure, states, C12_SecondRun) = states

\* C12 witness: the last run replaced a result with a number for distance
\* by one with another distance and a direction computed from the event.
C12_Witness ==
    /\ HandlerRan
    /\ Outcome(last) = "updated"
    /\ NamesUpdatedDevice
    /\ last.direction_of_travel \in {"towards", "away_from"}
    /\ last.distance_from_zone > 0

----------------------------------------------------------------------------
(* C13 *)

\* A run of the listener that wrote the result of its device.
C13_WritingStep ==
    /\ ListenerStep
    /\ Outcome(last') = "updated"

\* No located peer outside the override zones is nearer to the zone than
\* the device of run l.
C13_Nearest(l) ==
    \A d \in Tracked \ {l.entity} :
        (/\ HasLocation(states'[d].attributes)
         /\ ~InList(states'[d].state, ConfiguredOverrideZones))
           => l.distance_from_zone <= KmFromZone(states'[d].attributes)

\* C13: a run of the listener writes direction 'towards' or 'away_from'
\* only with a located old_state and a located new_state, for a device in
\* no override zone that no peer is nearer than.
C13_DirectionOnlyForNearestOutsideOverride ==
    [][(/\ C13_WritingStep
        /\ Published'.attributes.dir_of_travel \in {"towards", "away_from"})
          => /\ ~IsNone(last'.old_state)
             /\ HasLocation(last'.old_state.attributes)
             /\ HasLocation(last'.new_state.attributes)
             /\ ~InList(last'.new_state.state, ConfiguredOverrideZones)
             /\ C13_Nearest(last')]_vars

----------------------------------------------------------------------------
(* C14 *)

\* The three fields of the proximity entity are those of one run l of the
\* listener: its arrived result, or the result naming its device.
C14_WrittenBy(result, l) ==
    /\ result.state = result.attributes.dist_from_zone
    /\ \/ /\ result.attributes.dist_from_zone = Num(0)
          /\ result.attributes.dir_of_travel = "arrived"
          /\ result.attributes.nearest_device = "not_applicable"
       \/ /\ result.attributes.dist_from_zone = Num(l.distance_from_zone)
          /\ result.attributes.dir_of_travel = l.direction_of_travel
          /\ result.attributes.nearest_device = friendly_name(l.entity)

\* C14: once setup() succeeded there is one proximity entity, named after
\* the domain and the zone, whose state is its distance attribute; a run of
\* the listener writes no other entity, and leaves the proximity entity as
\* it was or with distance, direction and nearest device all of that run.
C14_OneResultReplacedWhole ==
    /\ [](listening
            => /\ closure.ENTITY_ID = <<DOMAIN_, config.zone>>
               /\ {e \in DOMAIN states : e[1] = DOMAIN_} = {closure.ENTITY_ID}
               /\ ~IsNone(Published)
               /\ Published.state = Published.attributes.dist_from_zone)
    /\ [][ListenerStep
            => /\ \A e \in DOMAIN states :
                     (e \notin Tracked /\ e # closure.ENTITY_ID)
                        => states'[e] = states[e]
               /\ \/ Published' = Published
                  \/ C14_WrittenBy(Published', last')]_vars

\* C14 witness: the last run wrote a result naming its device, with a
\* distance and a direction other than the defaults.
C14_Witness ==
    /\ HandlerRan
    /\ Outcome(last) = "updated"
    /\ last.distance_from_zone > 0
    /\ last.direction_of_travel = "cannot_calculate"
    /\ C14_WrittenBy(Published, last)
    /\ Published.attributes.nearest_device = friendly_name(last.entity)

----------------------------------------------------------------------------
(* C15 *)

\* The last run had nobody in the zone, its device closest or no peer
\* compared, a located new_state and no located old_state.
C15_Case ==
    /\ HandlerRan
    /\ ~last.someone_is_home
    /\ last.device_is_closest_to_home \/ last.devices_compared = 0
    /\ HasLocation(last.new_state.attributes)
    /\ IsNone(last.old_state) \/ ~HasLocation(last.old_state.attributes)

\* C15: in that case the result names the device at its computed distance
\* with direction 'unknown'.
C15_PublishesUnknown ==
    C15_Case
       => PublishedIs(Num(KmFromZone(last.new_state.attributes)), "unknown",
                      friendly_name(last.entity))

----------------------------------------------------------------------------
(* C16 *)

\* The peers of the last run that have both coordinates.
C16_LocatedPeers == {d \in Peers : HasLocation(states[d].attributes)}

\* proximity_devices without the peers that lack a coordinate.
C16_WithoutUnlocated ==
    SelectSeq(closure.proximity_devices,
              LAMBDA d : d = last.entity \/ d \in C16_LocatedPeers)

\* The outcome of the loop over the located peers alone.
C16_Remaining ==
    CompareAll(last.entity,
               [closure EXCEPT !.proximity_devices = C16_WithoutUnlocated],
               states, last.distance_from_zone)

\* C16: with nobody in the zone the run ends with the devices_compared, the
\* device_is_closest_to_home and the branch that the located peers alone
\* give: a peer without a coordinate changes none of them.
C16_UnlocatedPeersSkipped ==
    (HandlerRan /\ ~last.someone_is_home)
       => /\ last.devices_compared = C16_Remaining.compared
          /\ last.device_is_closest_to_home = C16_Remaining.closest
          /\ Outcome(last)
                = Outcome([last EXCEPT
                             !.devices_compared = C16_Remaining.compared,
                             !.device_is_closest_to_home = C16_Remaining.closest])

\* C16 witness: three devices, the last of proximity_devices without
\* location, the first updated and found closer than the located second.
C16_Witness ==
    /\ HandlerRan
    /\ ~last.someone_is_home
    /\ Len(config.devices) = 3
    /\ last.entity = config.devices[1]
    /\ HasLocation(states[config.devices[2]].attributes)
    /\ ~HasLocation(states[config.devices[3]].attributes)
    /\ last.devices_compared = 1
    /\ last.device_is_closest_to_home
    /\ Outcome(last) = "updated"

----------------------------------------------------------------------------
(* C17 *)

\* The placeholder that setup() publishes.
C17_Placeholder == update_ha_state(Proximity(Str("not set"), "not set", "not set"))

\* C17: the direction of the proximity entity is one of arrived, towards,
\* away_from, cannot_calculate and unknown, or it is 'not set' and the
\* entity is still the placeholder of setup(), which no run has replaced.
C17_WellFormedDirection ==
    listening
       => \/ Published.attributes.dir_of_travel
                \in {"arrived", "towards", "away_from", "cannot_calculate",
                     "unknown"}
          \/ /\ Published.attributes.dir_of_travel = "not set"
             /\ Published = C17_Placeholder

----------------------------------------------------------------------------
(* C18 *)

\* After the step two devices are tracked, both are located at the same
\* distance from the zone, in tenths of a kilometre, and nobody is in the
\* zone.
C18_TieAfterStep ==
    /\ Len(config.devices) = 2
    /\ \A d \in Tracked :
          /\ HasLocation(states'[d].attributes)
          /\ states'[d].state # config.zone
    /\ KmFromZone(states'[config.devices[1]].attributes)
          = KmFromZone(states'[config.devices[2]].attributes)

\* C18: a run of the listener for either of two tracked devices, which
\* leaves them tied and out of the zone, leaves the proximity entity as it
\* was.
C18_TieLeavesResult ==
    [][(ListenerStep /\ C18_TieAfterStep) => Published' = Published]_vars

\* C18 witness: the last run left two devices tied at different latitudes
\* and did not write; the proximity entity holds a result of an earlier
\* run, at another distance.
C18_Witness ==
    /\ HandlerRan
    /\ Len(config.devices) = 2
    /\ \A d \in Tracked :
          /\ HasLocation(states[d].attributes)
          /\ states[d].state # config.zone
    /\ KmFromZone(states[config.devices[1]].attributes)
          = KmFromZone(states[config.devices[2]].attributes)
    /\ states[config.devices[1]].attributes.latitude
          # states[config.devices[2]].attributes.latitude
    /\ Outcome(last) = "not updated"
    /\ IsNum(Published.state)
    /\ Published.state # Num(last.distance_from_zone)

----------------------------------------------------------------------------
(* C19 *)

\* The field a property is named after. The distance is a number or the
\* string 'not set'; a direction or a name is compared with it as a string.
C19_NamedField(self, accessor) ==
    IF accessor \in {"state", "distance_from_zone"} THEN self._dist_from
    ELSE IF accessor = "direction_of_travel" THEN Str(self._dir_of_travel)
    ELSE Str(self._nearest_device)

\* C19: what a property of the Proximity object returned is the field it is
\* named after, as the constructor got it; state is the distance.
C19_AccessorsReturnNamedField ==
    ~IsNone(read) => read.value = C19_NamedField(proximity, read.accessor)

====
